---- MODULE Spec2Model ----
(***************************************************************************)
(* Model of the two LangGraph exercises of the repository:                 *)
(*   day10-interrupts/submissions/ksy.py  the travel graph                 *)
(*       validate -> booking -> END, a SqliteSaver checkpointer and the    *)
(*       console driver run_graph;                                         *)
(*   day13-subgraphs/submissions/ksy.py   the refund graph (a subgraph     *)
(*       invoked from a node), the support graph (a subgraph added as a    *)
(*       node) and the approval graph (an interrupt inside a subgraph).    *)
(*                                                                         *)
(* Python strings are sequences of one-character strings, so that int(),   *)
(* strip(), lower() and the f-strings are computed and not assumed.        *)
(* A Python value that travels through Command(resume=...) carries its     *)
(* type in the field t, so that isinstance() and dict.get() are decided    *)
(* as the interpreter decides them.                                        *)
(***************************************************************************)
EXTENDS Integers, Sequences, FiniteSets, TLC

VARIABLES
    prog,     \* which of the two scripts this behaviour runs
    store,    \* day10: the checkpoint store, thread id -> latest checkpoint
    proc,     \* day10: the driver process of each thread id
    starts,   \* day10: how many times the script was started
    d13       \* day13: the script, top to bottom

vars == <<prog, store, proc, starts, d13>>

-----------------------------------------------------------------------------
(* Bounds                                                                  *)

MaxStarts == 3     \* starts of the day10 script (first run, restarts)
MaxInvalid == 2    \* resume values held by a pending validate node
MaxEdits == 2      \* resume values held by a pending booking node

-----------------------------------------------------------------------------
(* Python strings                                                          *)

Digits == <<"0", "1", "2", "3", "4", "5", "6", "7", "8", "9">>

UpperChars == <<"A", "D", "E", "I", "O", "P", "R", "T", "V", "Y">>

LowerChars == <<"a", "d", "e", "i", "o", "p", "r", "t", "v", "y">>

IsSpace(c) == c = " "

IsDigit(c) == \E i \in 1..10 : Digits[i] = c

DigitVal(c) == (CHOOSE i \in 1..10 : Digits[i] = c) - 1

\* str.strip(): leading and trailing white space removed
RECURSIVE LStrip(_)
LStrip(s) ==
    IF s # <<>> /\ IsSpace(Head(s)) THEN LStrip(Tail(s)) ELSE s

RECURSIVE RStrip(_)
RStrip(s) ==
    IF s # <<>> /\ IsSpace(s[Len(s)])
    THEN RStrip(SubSeq(s, 1, Len(s) - 1))
    ELSE s

Strip(s) == RStrip(LStrip(s))

\* str.lower()
LowerChar(c) ==
    IF \E i \in 1..Len(UpperChars) : UpperChars[i] = c
    THEN LowerChars[CHOOSE i \in 1..Len(UpperChars) : UpperChars[i] = c]
    ELSE c

Lower(s) == [i \in 1..Len(s) |-> LowerChar(s[i])]

\* the digits of a string read as a decimal number
RECURSIVE DigitsVal(_)
DigitsVal(s) ==
    IF s = <<>> THEN 0
    ELSE 10 * DigitsVal(SubSeq(s, 1, Len(s) - 1)) + DigitVal(s[Len(s)])

AllDigits(s) == s # <<>> /\ \A i \in 1..Len(s) : IsDigit(s[i])

\* int(val): white space stripped, an optional sign, then digits only;
\* anything else raises ValueError
IntParses(s) ==
    LET b == Strip(s) IN
    \/ AllDigits(b)
    \/ b # <<>> /\ Head(b) \in {"+", "-"} /\ AllDigits(Tail(b))

ParseInt(s) ==
    LET b == Strip(s) IN
    IF Head(b) = "-" THEN 0 - DigitsVal(Tail(b))
    ELSE IF Head(b) = "+" THEN DigitsVal(Tail(b))
    ELSE DigitsVal(b)

\* str(n) of an int
RECURSIVE NatToStr(_)
NatToStr(n) ==
    IF n < 10 THEN <<Digits[n + 1]>>
    ELSE NatToStr(n \div 10) \o <<Digits[(n % 10) + 1]>>

IntToStr(n) == IF n < 0 THEN <<"-">> \o NatToStr(0 - n) ELSE NatToStr(n)

-----------------------------------------------------------------------------
(* Python values                                                           *)

None == [t |-> "none"]

PyInt(n) == [t |-> "int", v |-> n]

PyStr(s) == [t |-> "str", v |-> s]

PyDict(d) == [t |-> "dict", v |-> d]

\* the f-string rendering of a value
Format(x) ==
    IF x.t = "int" THEN IntToStr(x.v)
    ELSE IF x.t = "str" THEN x.v
    ELSE IF x.t = "none" THEN <<"N", "o", "n", "e">>
    ELSE <<"{", "}">>

EmptyDict == [f \in {} |-> None]

-----------------------------------------------------------------------------
(* State and its merge (the channels of a StateGraph)                      *)

\* Annotated[list[str], operator.add] makes history an append field; every
\* other field of every schema is a plain (last value) field
Policy(f) == IF f = "history" THEN "append" ELSE "replace"

\* a merge that overwrites every field, the append fields included
MergeReplace(S, D) ==
    [f \in (DOMAIN S) \cup (DOMAIN D) |->
        IF f \in DOMAIN D THEN D[f] ELSE S[f]]

\* the update of the channels by the delta a node returned
Merge(S, D) ==
    [f \in (DOMAIN S) \cup (DOMAIN D) |->
        IF f \notin DOMAIN D THEN S[f]
        ELSE IF Policy(f) = "append"
             THEN (IF f \in DOMAIN S THEN S[f] ELSE <<>>) \o D[f]
             ELSE D[f]]

-----------------------------------------------------------------------------
(* day10: the texts.  A fixed part of a message is written as one element  *)
(* of the sequence; what is typed or interpolated is written character by  *)
(* character.                                                              *)

approve == <<"a", "p", "p", "r", "o", "v", "e">>

edit == <<"e", "d", "i", "t">>

reject == <<"r", "e", "j", "e", "c", "t">>

yes == <<"y", "e", "s">>

booked == <<"booked">>

cancelled == <<"cancelled">>

searching == <<"searching">>

confirm_booking == <<"confirm_booking">>

Jeju == <<"J", "e", "j", "u">>

UnitPrice == 250000

EditSurcharge == 50000

\* f"{destination} ..." of the initial proposal
InitialHotel(destination) == destination \o <<" Grand Hyatt">>

\* the prompt of the validate node, which quotes the rejected value
ValidatePrompt(num) == <<"'">> \o Format(num) \o <<"' not possible, enter a number">>

BookingMessage(hotel, price) ==
    <<"hotel: ">> \o hotel \o <<" / price: ">> \o IntToStr(price)
        \o <<" proceed? (approve/edit/reject)">>

\* the value handed to interrupt() by booking_tool
BookingPayload(destination, travelers, hotel, price) ==
    PyDict([action |-> confirm_booking,
            details |-> [destination |-> destination,
                         hotel |-> hotel,
                         travelers |-> travelers,
                         total_price |-> price],
            message |-> BookingMessage(hotel, price)])

-----------------------------------------------------------------------------
(* day10: the nodes.  A node that called interrupt() is run again from its *)
(* first line when the thread is resumed; the k-th call of interrupt()     *)
(* then returns the k-th resume value stored for the pending node, and the *)
(* first call without a stored value suspends the node.  rs is that list.  *)

Suspended(payload) == [kind |-> "interrupt", value |-> payload]

Returned(delta) == [kind |-> "return", delta |-> delta]

Fault == [kind |-> "fault"]

\* dict.get("action")
GetAction(d) == IF "action" \in DOMAIN d THEN PyStr(d.action) ELSE None

\* the while loop of booking_tool from its k-th interrupt() on
RECURSIVE BookingLoop(_, _, _, _, _, _)
BookingLoop(destination, travelers, current_hotel, current_price, rs, k) ==
    IF k > Len(rs)
    THEN Suspended(BookingPayload(destination, travelers,
                                  current_hotel, current_price))
    ELSE LET user_decision == rs[k] IN
         IF user_decision.t # "dict" THEN Fault
         ELSE LET action == GetAction(user_decision.v) IN
              IF action = PyStr(approve)
              THEN Returned([result |-> "success",
                             hotel |-> current_hotel,
                             total_price |-> current_price])
              ELSE IF action = PyStr(edit)
              THEN IF "hotel" \in DOMAIN user_decision.v
                   THEN BookingLoop(destination, travelers,
                                    user_decision.v.hotel,
                                    current_price + EditSurcharge, rs, k + 1)
                   ELSE BookingLoop(destination, travelers,
                                    current_hotel, current_price, rs, k + 1)
              ELSE Returned([result |-> "cancelled"])

\* a booking_tool that prices the package for one traveler
booking_tool_flat(destination, travelers, rs) ==
    BookingLoop(destination, travelers, InitialHotel(destination),
                UnitPrice, rs, 1)

\* a booking_tool that starts over on every resume and sees only the last
\* resume value
booking_tool_restart(destination, travelers, rs) ==
    BookingLoop(destination, travelers, InitialHotel(destination),
                travelers * UnitPrice,
                IF rs = <<>> THEN rs ELSE <<rs[Len(rs)]>>, 1)

booking_tool(destination, travelers, rs) ==
    BookingLoop(destination, travelers, InitialHotel(destination),
                travelers * UnitPrice, rs, 1)

\* the while loop of validate_travelers_node from its k-th interrupt() on
RECURSIVE ValidateLoop(_, _, _)
ValidateLoop(num, rs, k) ==
    IF num.t = "int" /\ num.v > 0 THEN Returned([travelers |-> num.v])
    ELSE IF k > Len(rs) THEN Suspended(PyStr(ValidatePrompt(num)))
    ELSE ValidateLoop(rs[k], rs, k + 1)

\* a validate node that takes the first resume value without checking it
validate_travelers_node_once(state, rs) ==
    IF rs # <<>> /\ rs[1].t = "int" THEN Returned([travelers |-> rs[1].v])
    ELSE ValidateLoop(PyInt(state.travelers), rs, 1)

validate_travelers_node(state, rs) ==
    ValidateLoop(PyInt(state.travelers), rs, 1)

\* a booking node that reports every returned result as booked
process_booking_node_always(state, rs) ==
    LET res == booking_tool(state.destination, state.travelers, rs) IN
    IF res.kind # "return" THEN res
    ELSE IF res.delta.result = "success"
    THEN Returned([status |-> booked,
                   hotel |-> res.delta.hotel,
                   total_price |-> res.delta.total_price])
    ELSE Returned([status |-> booked])

\* a booking node that books the package first offered, whatever the tool
\* returned
process_booking_node_offer(state, rs) ==
    LET res == booking_tool(state.destination, state.travelers, rs) IN
    IF res.kind # "return" THEN res
    ELSE IF res.delta.result = "success"
    THEN Returned([status |-> booked,
                   hotel |-> InitialHotel(state.destination),
                   total_price |-> state.travelers * UnitPrice])
    ELSE Returned([status |-> cancelled])

process_booking_node(state, rs) ==
    LET res == booking_tool(state.destination, state.travelers, rs) IN
    IF res.kind # "return" THEN res
    ELSE IF res.delta.result = "success"
    THEN Returned([status |-> booked,
                   hotel |-> res.delta.hotel,
                   total_price |-> res.delta.total_price])
    ELSE Returned([status |-> cancelled])

\* builder.add_node
RunNode(node, state, rs) ==
    IF node = "validate" THEN validate_travelers_node(state, rs)
    ELSE process_booking_node(state, rs)

\* builder.add_edge: the nodes that run after a node
Successor(node) == IF node = "validate" THEN <<"booking">> ELSE <<>>

\* an entry edge to both nodes
EntryNodesBoth == <<"validate", "booking">>

\* an entry edge that skips the validate node
EntryNodesBooking == <<"booking">>

EntryNodes == <<"validate">>

-----------------------------------------------------------------------------
(* day10: the checkpoint store and the driver                              *)

Thread1 == "user_final_fix_1"

\* graph.get_state(config) of a thread without a checkpoint
NoCheckpoint ==
    [values |-> EmptyDict,   \* the State
     next |-> <<>>,          \* the pending nodes
     resumes |-> <<>>,       \* resume values stored for the pending node
     interrupts |-> <<>>,    \* the suspension markers of the pending node
     log |-> <<>>]           \* the writers of the checkpoints so far

start_input ==
    [destination |-> Jeju, travelers |-> 0, status |-> searching]

\* the locals of a process that is not running
Stopped ==
    [pc |-> "off", current_input |-> None, last_event |-> None,
     interrupted |-> FALSE, content |-> None, val |-> None,
     action |-> None, final |-> None]

\* what a human may type at input()
TypedNumbers ==
    {<<"2">>, <<"1">>, <<" ", "2">>, <<"0">>, <<"-", "1">>, <<"a">>, <<>>}

TypedActions ==
    {approve, <<" ", "A", "p", "p", "r", "o", "v", "e">>, edit,
     <<"E", "D", "I", "T", " ">>, reject, yes, <<>>}

TypedHotels == {<<"Y">>, <<"Z">>}

StateEvent(values) == [t |-> "state", v |-> values]

InterruptEvent(value) == [t |-> "__interrupt__", v |-> value]

\* one superstep of the pending node of thread t, run with the stored
\* resume values followed by extra, and what the for loop of run_graph,
\* whose locals are p, does with the event it yields
ExecStep(t, extra, p) ==
    LET cp == store[t]
        node == cp.next[1]
        rs == cp.resumes \o extra
        out == RunNode(node, cp.values, rs)
    IN
    IF out.kind = "interrupt"
    THEN /\ store' = [store EXCEPT ![t] =
                [cp EXCEPT !.resumes = rs, !.interrupts = <<out.value>>]]
         /\ proc' = [proc EXCEPT ![t] =
                [p EXCEPT !.last_event = InterruptEvent(out.value),
                          !.interrupted = TRUE,
                          !.content = out.value,
                          !.pc = IF out.value.t = "str" THEN "ask_number"
                                 ELSE IF out.value.t = "dict" THEN "ask_action"
                                 ELSE "events"]]
    ELSE IF out.kind = "return"
    THEN LET merged == Merge(cp.values, out.delta) IN
         /\ store' = [store EXCEPT ![t] =
                [values |-> merged,
                 next |-> Successor(node),
                 resumes |-> <<>>,
                 interrupts |-> <<>>,
                 log |-> Append(cp.log, node)]]
         /\ proc' = [proc EXCEPT ![t] =
                [p EXCEPT !.last_event = StateEvent(merged),
                          !.pc = "events"]]
    ELSE /\ store' = store
         /\ proc' = [proc EXCEPT ![t] = [Stopped EXCEPT !.pc = "fault"]]

\* a start that never looks at the pending node
BootFresh(t) ==
    /\ prog = "day10"
    /\ proc[t].pc \in {"off", "fault"}
    /\ starts < MaxStarts
    /\ starts' = starts + 1
    /\ proc' = [proc EXCEPT ![t] =
            [Stopped EXCEPT
                !.pc = "stream",
                !.current_input = [t |-> "input", v |-> start_input]]]
    /\ UNCHANGED <<prog, store, d13>>

\* the script is started: existing_state = graph.get_state(config) decides
\* between run_graph(None) and run_graph(start_input)
Boot(t) ==
    /\ prog = "day10"
    /\ proc[t].pc \in {"off", "fault"}
    /\ starts < MaxStarts
    /\ starts' = starts + 1
    /\ proc' = [proc EXCEPT ![t] =
            [Stopped EXCEPT
                !.pc = "stream",
                !.current_input =
                    IF store[t].next # <<>> THEN None
                    ELSE [t |-> "input", v |-> start_input]]]
    /\ UNCHANGED <<prog, store, d13>>

\* a start of a session that throws the State of the thread away
StreamInputReset(t) ==
    /\ prog = "day10"
    /\ proc[t].pc = "stream"
    /\ proc[t].current_input.t = "input"
    /\ LET merged == proc[t].current_input.v IN
       /\ store' = [store EXCEPT ![t] =
                [values |-> merged,
                 next |-> EntryNodes,
                 resumes |-> <<>>,
                 interrupts |-> <<>>,
                 log |-> Append(store[t].log, "input")]]
       /\ proc' = [proc EXCEPT ![t] =
                [@ EXCEPT !.pc = "events",
                          !.last_event = StateEvent(merged),
                          !.interrupted = FALSE]]
    /\ UNCHANGED <<prog, starts, d13>>

\* a store that keeps one checkpoint for all thread ids
StreamInputShared(t) ==
    /\ prog = "day10"
    /\ proc[t].pc = "stream"
    /\ proc[t].current_input.t = "input"
    /\ LET merged == Merge(store[t].values, proc[t].current_input.v) IN
       /\ store' = [u \in DOMAIN store |->
                [values |-> merged,
                 next |-> EntryNodes,
                 resumes |-> <<>>,
                 interrupts |-> <<>>,
                 log |-> Append(store[t].log, "input")]]
       /\ proc' = [proc EXCEPT ![t] =
                [@ EXCEPT !.pc = "events",
                          !.last_event = StateEvent(merged),
                          !.interrupted = FALSE]]
    /\ UNCHANGED <<prog, starts, d13>>

\* graph.stream(start_input, config) up to its first event: the input is
\* written to the channels, the entry node becomes pending
StreamInput(t) ==
    /\ prog = "day10"
    /\ proc[t].pc = "stream"
    /\ proc[t].current_input.t = "input"
    /\ LET merged == Merge(store[t].values, proc[t].current_input.v) IN
       /\ store' = [store EXCEPT ![t] =
                [values |-> merged,
                 next |-> EntryNodes,
                 resumes |-> <<>>,
                 interrupts |-> <<>>,
                 log |-> Append(store[t].log, "input")]]
       /\ proc' = [proc EXCEPT ![t] =
                [@ EXCEPT !.pc = "events",
                          !.last_event = StateEvent(merged),
                          !.interrupted = FALSE]]
    /\ UNCHANGED <<prog, starts, d13>>

\* graph.stream(None, config) and graph.stream(Command(resume=v), config)
\* up to the first event: the pending node is run again
StreamResume(t) ==
    /\ prog = "day10"
    /\ proc[t].pc = "stream"
    /\ proc[t].current_input.t \in {"none", "resume"}
    /\ store[t].next # <<>>
    /\ ExecStep(t,
                IF proc[t].current_input.t = "resume"
                THEN <<proc[t].current_input.v>> ELSE <<>>,
                [proc[t] EXCEPT !.last_event = None, !.interrupted = FALSE])
    /\ UNCHANGED <<prog, starts, d13>>

\* the next superstep of the same stream
Superstep(t) ==
    /\ prog = "day10"
    /\ proc[t].pc = "events"
    /\ store[t].next # <<>>
    /\ ExecStep(t, <<>>, proc[t])
    /\ UNCHANGED <<prog, starts, d13>>

\* a driver that returns the event at hand while a node is still pending
StreamEndEarly(t) ==
    /\ prog = "day10"
    /\ proc[t].pc = "events"
    /\ ~proc[t].interrupted
    /\ proc' = [proc EXCEPT ![t] = [Stopped EXCEPT !.final = proc[t].last_event]]
    /\ UNCHANGED <<prog, store, starts, d13>>

\* the stream is exhausted: "if not interrupted: return last_event", the
\* result is printed and the script ends
StreamEnd(t) ==
    /\ prog = "day10"
    /\ proc[t].pc = "events"
    /\ store[t].next = <<>>
    /\ ~proc[t].interrupted
    /\ proc' = [proc EXCEPT ![t] = [Stopped EXCEPT !.final = proc[t].last_event]]
    /\ UNCHANGED <<prog, store, starts, d13>>

\* val = input(...) of the validation step
AnswerNumber(t) ==
    /\ prog = "day10"
    /\ proc[t].pc = "ask_number"
    /\ \E val \in TypedNumbers :
         LET v == IF IntParses(val) THEN ParseInt(val) ELSE 0 IN
         /\ v > 0 \/ Len(store[t].resumes) < MaxInvalid
         /\ proc' = [proc EXCEPT ![t] =
                [@ EXCEPT !.val = PyStr(val),
                          !.current_input = [t |-> "resume", v |-> PyInt(v)],
                          !.pc = "stream"]]
    /\ UNCHANGED <<prog, store, starts, d13>>

\* a driver that sends the typed action itself as the resume value
AnswerActionBare(t) ==
    /\ prog = "day10"
    /\ proc[t].pc = "ask_action"
    /\ \E typed \in TypedActions :
         LET action == Lower(Strip(typed)) IN
         /\ action # edit \/ Len(store[t].resumes) < MaxEdits
         /\ proc' = [proc EXCEPT ![t] =
                IF action = edit
                THEN [@ EXCEPT !.action = PyStr(action), !.pc = "ask_hotel"]
                ELSE [@ EXCEPT !.action = PyStr(action),
                               !.current_input =
                                   [t |-> "resume", v |-> PyStr(action)],
                               !.pc = "stream"]]
    /\ UNCHANGED <<prog, store, starts, d13>>

\* action = input(...).strip().lower() of the review step
AnswerAction(t) ==
    /\ prog = "day10"
    /\ proc[t].pc = "ask_action"
    /\ \E typed \in TypedActions :
         LET action == Lower(Strip(typed)) IN
         /\ action # edit \/ Len(store[t].resumes) < MaxEdits
         /\ proc' = [proc EXCEPT ![t] =
                IF action = edit
                THEN [@ EXCEPT !.action = PyStr(action), !.pc = "ask_hotel"]
                ELSE [@ EXCEPT !.action = PyStr(action),
                               !.current_input =
                                   [t |-> "resume",
                                    v |-> PyDict([action |-> action])],
                               !.pc = "stream"]]
    /\ UNCHANGED <<prog, store, starts, d13>>

\* new_hotel = input(...) after the answer edit
AnswerHotel(t) ==
    /\ prog = "day10"
    /\ proc[t].pc = "ask_hotel"
    /\ \E new_hotel \in TypedHotels :
         proc' = [proc EXCEPT ![t] =
                [@ EXCEPT !.current_input =
                              [t |-> "resume",
                               v |-> PyDict([action |-> edit,
                                             hotel |-> new_hotel])],
                          !.pc = "stream"]]
    /\ UNCHANGED <<prog, store, starts, d13>>

\* the process is stopped from outside while it runs; its locals are lost,
\* the checkpoint store is on disk
Crash(t) ==
    /\ prog = "day10"
    /\ proc[t].pc \notin {"off", "fault"}
    /\ proc' = [proc EXCEPT ![t] = Stopped]
    /\ UNCHANGED <<prog, store, starts, d13>>

\* Resume values a caller of the graph other than run_graph may send
ResumeValues ==
    {PyInt(2), PyInt(0), PyStr(<<"2">>),
     PyDict([action |-> approve]),
     PyDict([action |-> reject]),
     PyDict([action |-> yes]),
     PyDict([action |-> edit]),
     PyDict([action |-> edit, hotel |-> <<"Y">>]),
     PyDict([action |-> edit, hotel |-> <<"Z">>]),
     PyDict([hotel |-> <<"Z">>])}

\* a resume value after which the pending node calls interrupt() again
Continues(node, v) ==
    IF node = "validate" THEN ~(v.t = "int" /\ v.v > 0)
    ELSE v.t = "dict" /\ GetAction(v.v) = PyStr(edit)

\* a caller that answers a suspension with Command(resume=v) for any v
AnswerAny(t) ==
    /\ prog = "day10"
    /\ proc[t].pc \in {"ask_number", "ask_action"}
    /\ \E v \in ResumeValues :
         /\ Continues(store[t].next[1], v) =>
                Len(store[t].resumes) <
                    (IF store[t].next[1] = "validate" THEN MaxInvalid
                     ELSE MaxEdits)
         /\ proc' = [proc EXCEPT ![t] =
                [@ EXCEPT !.current_input = [t |-> "resume", v |-> v],
                          !.pc = "stream"]]
    /\ UNCHANGED <<prog, store, starts, d13>>

Day10Next ==
    \/ \E t \in DOMAIN store : Boot(t)
    \/ \E t \in DOMAIN store : StreamInput(t)
    \/ \E t \in DOMAIN store : StreamResume(t)
    \/ \E t \in DOMAIN store : Superstep(t)
    \/ \E t \in DOMAIN store : StreamEnd(t)
    \/ \E t \in DOMAIN store : AnswerNumber(t)
    \/ \E t \in DOMAIN store : AnswerAction(t)
    \/ \E t \in DOMAIN store : AnswerHotel(t)
    \/ \E t \in DOMAIN store : Crash(t)

-----------------------------------------------------------------------------
(* day13: the script runs three graphs one after the other.  A graph       *)
(* without a checkpointer keeps its State in the running stream only.      *)

KimCheolsu == <<"Kim Cheolsu">>

processing == <<"processing">>

ServerReboot == <<"server reboot">>

CustomerEntry == <<"customer: the screen stays black">>

TriageEntry == <<"agent: technical support requested">>

TechEntry == <<"tech team: hardware fault confirmed">>

TechNotes == <<"log analysis: power unit failure">>

High == <<"High">>

ApprovalPrompt == PyStr(<<"approve this task? (yes/no)">>)

\* the fee rate 0.1 of call_refund_subgraph, in percent
FeePercent == 10

\* the order values the refund graph is run with
OrderValues == {100000, 15}

\* what is sent as Command(resume=...) to the approval graph
ApprovalAnswers == {yes, <<"n", "o">>, <<"Y", "E", "S">>}

\* the fields a schema declares
RefundFields == {"raw_amount", "fee_rate", "final_refund"}

SupportFields == {"customer_name", "order_value", "status"}

SharedFields == {"history", "internal_notes"}

\* a ParentState that also declares the notes of the tech team
ParentFieldsShared == {"history", "priority", "internal_notes"}

ParentFields == {"history", "priority"}

TaskFields == {"task_name", "is_approved"}

\* a mapping cut down to the fields of a schema: what a graph reads of its
\* input and what a node's writer takes of a returned mapping
Restrict(D, fields) == [f \in (DOMAIN D) \cap fields |-> D[f]]

\* int(x): the fraction num / den cut towards zero
TruncDiv(num, den) ==
    IF num >= 0 THEN num \div den ELSE 0 - ((0 - num) \div den)

\* a calculate_fee that returns the fee instead of the refund
calculate_fee_only(state) ==
    [final_refund |-> TruncDiv(state.raw_amount * state.fee_rate, 100)]

calculate_fee(state) ==
    [final_refund |->
        TruncDiv(state.raw_amount * (100 - state.fee_rate), 100)]

\* refund_subgraph.invoke(input): START -> calculate_fee -> END
RefundSubgraph(input) ==
    LET s0 == Merge(EmptyDict, Restrict(input, RefundFields))
    IN Merge(s0, Restrict(calculate_fee(s0), RefundFields))

initiate_support(state) == [status |-> processing]

call_refund_subgraph(state) ==
    LET response == RefundSubgraph([raw_amount |-> state.order_value,
                                    fee_rate |-> FeePercent])
    IN [status |-> <<"refund done: ">> \o IntToStr(response.final_refund)
                       \o <<" won">>]

tech_analysis(state) ==
    [history |-> <<TechEntry>>, internal_notes |-> TechNotes]

\* tech_subgraph run as a node: it reads its fields of the parent State as
\* its input and returns its own final State
TechSubgraph(input) ==
    LET s0 == Merge(EmptyDict, Restrict(input, SharedFields))
    IN Merge(s0, Restrict(tech_analysis(s0), SharedFields))

initial_triage(state) == [history |-> <<TriageEntry>>, priority |-> High]

\* ask_approval run with the resume values rs stored for it
\* an ask_approval that takes any answer as an approval
ask_approval_any(state, rs) ==
    IF rs = <<>> THEN Suspended(ApprovalPrompt)
    ELSE Returned([is_approved |-> TRUE])

ask_approval(state, rs) ==
    IF rs = <<>> THEN Suspended(ApprovalPrompt)
    ELSE Returned([is_approved |-> (rs[1] = PyStr(yes))])

EmptySnapshot == [values |-> EmptyDict, next |-> <<>>, tasks |-> <<>>]

D13Start ==
    [pc |-> "refund_input",
     support |-> EmptyDict,        \* State of the refund graph's parent
     refund |-> EmptyDict,         \* final State of refund_subgraph
     parent |-> EmptyDict,         \* State of the support graph
     tech |-> EmptyDict,           \* final State of tech_subgraph
     task |-> NoCheckpoint,        \* thread step_123, the parent graph
     sub |-> NoCheckpoint,         \* thread step_123, inside node process
     resume |-> None,              \* the value of the last Command(resume=)
     full_state |-> EmptySnapshot, \* graph.get_state(config, subgraphs=True)
     result |-> None]              \* graph.get_state(config).values, at the end

\* graph.stream({"customer_name": ..., "order_value": ...}): the input
RefundInput ==
    /\ prog = "day13"
    /\ d13.pc = "refund_input"
    /\ \E order_value \in OrderValues :
         d13' = [d13 EXCEPT
            !.support = Merge(EmptyDict,
                Restrict([customer_name |-> KimCheolsu,
                          order_value |-> order_value], SupportFields)),
            !.pc = "initiate"]
    /\ UNCHANGED <<prog, store, proc, starts>>

Initiate ==
    /\ prog = "day13"
    /\ d13.pc = "initiate"
    /\ d13' = [d13 EXCEPT
            !.support = Merge(@, Restrict(initiate_support(@), SupportFields)),
            !.pc = "refund_process"]
    /\ UNCHANGED <<prog, store, proc, starts>>

RefundProcess ==
    /\ prog = "day13"
    /\ d13.pc = "refund_process"
    /\ d13' = [d13 EXCEPT
            !.refund = RefundSubgraph([raw_amount |-> d13.support.order_value,
                                       fee_rate |-> FeePercent]),
            !.support = Merge(@, Restrict(call_refund_subgraph(@),
                                          SupportFields)),
            !.pc = "support_input"]
    /\ UNCHANGED <<prog, store, proc, starts>>

\* graph.stream({"history": [...]}): the input
SupportInput ==
    /\ prog = "day13"
    /\ d13.pc = "support_input"
    /\ d13' = [d13 EXCEPT
            !.parent = Merge(EmptyDict,
                Restrict([history |-> <<CustomerEntry>>], ParentFields)),
            !.pc = "triage"]
    /\ UNCHANGED <<prog, store, proc, starts>>

Triage ==
    /\ prog = "day13"
    /\ d13.pc = "triage"
    /\ d13' = [d13 EXCEPT
            !.parent = Merge(@, Restrict(initial_triage(@), ParentFields)),
            !.pc = "tech_team"]
    /\ UNCHANGED <<prog, store, proc, starts>>

\* the node tech_team is the compiled subgraph
TechTeam ==
    /\ prog = "day13"
    /\ d13.pc = "tech_team"
    /\ d13' = [d13 EXCEPT
            !.tech = TechSubgraph(d13.parent),
            !.parent = Merge(@, Restrict(TechSubgraph(@), ParentFields)),
            !.pc = "approval_invoke"]
    /\ UNCHANGED <<prog, store, proc, starts>>

\* graph.invoke({"task_name": ..., "is_approved": False}, config): the input
\* is written, node process starts the subgraph, ask_approval suspends
ApprovalInvoke ==
    /\ prog = "day13"
    /\ d13.pc = "approval_invoke"
    /\ LET values == Merge(d13.task.values,
                Restrict([task_name |-> ServerReboot, is_approved |-> FALSE],
                         TaskFields))
           subvalues == Merge(d13.sub.values, Restrict(values, TaskFields))
           out == ask_approval(subvalues, <<>>)
       IN d13' = [d13 EXCEPT
            !.task = [values |-> values,
                      next |-> <<"process">>,
                      resumes |-> <<>>,
                      interrupts |-> <<out.value>>,
                      log |-> <<"input">>],
            !.sub = [values |-> subvalues,
                     next |-> <<"ask_approval">>,
                     resumes |-> <<>>,
                     interrupts |-> <<out.value>>,
                     log |-> <<"input">>],
            !.pc = "get_state"]
    /\ UNCHANGED <<prog, store, proc, starts>>

\* a state query whose task snapshot repeats the parent's own State
GetFullStateFlat ==
    /\ prog = "day13"
    /\ d13.pc = "get_state"
    /\ d13' = [d13 EXCEPT
            !.full_state =
                [values |-> d13.task.values,
                 next |-> d13.task.next,
                 tasks |-> <<[name |-> d13.task.next[1],
                              interrupts |-> d13.task.interrupts,
                              state |-> [values |-> d13.task.values,
                                         next |-> d13.task.next]]>>],
            !.pc = "resume"]
    /\ UNCHANGED <<prog, store, proc, starts>>

\* full_state = graph.get_state(config, subgraphs=True)
GetFullState ==
    /\ prog = "day13"
    /\ d13.pc = "get_state"
    /\ d13' = [d13 EXCEPT
            !.full_state =
                [values |-> d13.task.values,
                 next |-> d13.task.next,
                 tasks |-> <<[name |-> d13.task.next[1],
                              interrupts |-> d13.task.interrupts,
                              state |-> [values |-> d13.sub.values,
                                         next |-> d13.sub.next]]>>],
            !.pc = "resume"]
    /\ UNCHANGED <<prog, store, proc, starts>>

\* graph.invoke(Command(resume=...), config): ask_approval is run again and
\* returns, the subgraph ends, its final State is the update of node process
ApprovalResume ==
    /\ prog = "day13"
    /\ d13.pc = "resume"
    /\ \E answer \in ApprovalAnswers :
         LET rs == d13.sub.resumes \o <<PyStr(answer)>>
             out == ask_approval(d13.sub.values, rs)
             subvalues == Merge(d13.sub.values,
                                Restrict(out.delta, TaskFields))
         IN d13' = [d13 EXCEPT
              !.resume = PyStr(answer),
              !.sub = [values |-> subvalues,
                       next |-> <<>>,
                       resumes |-> <<>>,
                       interrupts |-> <<>>,
                       log |-> Append(d13.sub.log, "ask_approval")],
              !.task = [values |-> Merge(d13.task.values,
                                         Restrict(subvalues, TaskFields)),
                        next |-> <<>>,
                        resumes |-> <<>>,
                        interrupts |-> <<>>,
                        log |-> Append(d13.task.log, "process")],
              !.pc = "final_state"]
    /\ UNCHANGED <<prog, store, proc, starts>>

\* print(graph.get_state(config).values)
GetFinalState ==
    /\ prog = "day13"
    /\ d13.pc = "final_state"
    /\ d13' = [d13 EXCEPT !.result = StateEvent(d13.task.values),
                          !.pc = "end"]
    /\ UNCHANGED <<prog, store, proc, starts>>

Day13Next ==
    \/ RefundInput
    \/ Initiate
    \/ RefundProcess
    \/ SupportInput
    \/ Triage
    \/ TechTeam
    \/ ApprovalInvoke
    \/ GetFullState
    \/ ApprovalResume
    \/ GetFinalState

Init ==
    /\ prog \in {"day10", "day13"}
    /\ store = [t \in {Thread1} |-> NoCheckpoint]
    /\ proc = [t \in {Thread1} |-> Stopped]
    /\ starts = 0
    /\ d13 = D13Start

Next == Day10Next \/ Day13Next

Spec == Init /\ [][Next]_vars

\* the travel graph driven by a caller that may send any resume value
InitCaller ==
    /\ prog = "day10"
    /\ store = [t \in {Thread1} |-> NoCheckpoint]
    /\ proc = [t \in {Thread1} |-> Stopped]
    /\ starts = 0
    /\ d13 = D13Start

NextCaller ==
    \/ \E t \in DOMAIN store : Boot(t)
    \/ \E t \in DOMAIN store : StreamInput(t)
    \/ \E t \in DOMAIN store : StreamResume(t)
    \/ \E t \in DOMAIN store : Superstep(t)
    \/ \E t \in DOMAIN store : StreamEnd(t)
    \/ \E t \in DOMAIN store : AnswerAny(t)
    \/ \E t \in DOMAIN store : Crash(t)

SpecCaller == InitCaller /\ [][NextCaller]_vars

\* two sessions of the script on the same compiled graph and the same
\* checkpoint store, each with its own thread_id in config and its own human
Thread2 == "user_final_fix_2"

\* what the human of thread t types at input()
TypedNumbersOf(t) ==
    IF t = Thread1 THEN {<<"2">>, <<"0">>} ELSE {<<"1">>, <<"a">>}

TypedActionsOf(t) ==
    IF t = Thread1 THEN {approve, edit, reject}
    ELSE {reject, <<"E", "D", "I", "T", " ">>,
          <<" ", "A", "p", "p", "r", "o", "v", "e">>}

TypedHotelsOf(t) == IF t = Thread1 THEN {<<"Y">>} ELSE {<<"Z">>}

\* val = input(...) of the validation step, typed by the human of thread t
ThreadAnswerNumber(t) ==
    /\ prog = "day10"
    /\ proc[t].pc = "ask_number"
    /\ \E val \in TypedNumbersOf(t) :
         LET v == IF IntParses(val) THEN ParseInt(val) ELSE 0 IN
         /\ v > 0 \/ Len(store[t].resumes) < MaxInvalid
         /\ proc' = [proc EXCEPT ![t] =
                [@ EXCEPT !.val = PyStr(val),
                          !.current_input = [t |-> "resume", v |-> PyInt(v)],
                          !.pc = "stream"]]
    /\ UNCHANGED <<prog, store, starts, d13>>

\* action = input(...).strip().lower(), typed by the human of thread t
ThreadAnswerAction(t) ==
    /\ prog = "day10"
    /\ proc[t].pc = "ask_action"
    /\ \E typed \in TypedActionsOf(t) :
         LET action == Lower(Strip(typed)) IN
         /\ action # edit \/ Len(store[t].resumes) < MaxEdits
         /\ proc' = [proc EXCEPT ![t] =
                IF action = edit
                THEN [@ EXCEPT !.action = PyStr(action), !.pc = "ask_hotel"]
                ELSE [@ EXCEPT !.action = PyStr(action),
                               !.current_input =
                                   [t |-> "resume",
                                    v |-> PyDict([action |-> action])],
                               !.pc = "stream"]]
    /\ UNCHANGED <<prog, store, starts, d13>>

\* new_hotel = input(...), typed by the human of thread t
ThreadAnswerHotel(t) ==
    /\ prog = "day10"
    /\ proc[t].pc = "ask_hotel"
    /\ \E new_hotel \in TypedHotelsOf(t) :
         proc' = [proc EXCEPT ![t] =
                [@ EXCEPT !.current_input =
                              [t |-> "resume",
                               v |-> PyDict([action |-> edit,
                                             hotel |-> new_hotel])],
                          !.pc = "stream"]]
    /\ UNCHANGED <<prog, store, starts, d13>>

InitThreads ==
    /\ prog = "day10"
    /\ store = [t \in {Thread1, Thread2} |-> NoCheckpoint]
    /\ proc = [t \in {Thread1, Thread2} |-> Stopped]
    /\ starts = 0
    /\ d13 = D13Start

NextThreads ==
    \/ \E t \in DOMAIN store : Boot(t)
    \/ \E t \in DOMAIN store : StreamInput(t)
    \/ \E t \in DOMAIN store : StreamResume(t)
    \/ \E t \in DOMAIN store : Superstep(t)
    \/ \E t \in DOMAIN store : StreamEnd(t)
    \/ \E t \in DOMAIN store : ThreadAnswerNumber(t)
    \/ \E t \in DOMAIN store : ThreadAnswerAction(t)
    \/ \E t \in DOMAIN store : ThreadAnswerHotel(t)

SpecThreads == InitThreads /\ [][NextThreads]_vars

\* the human enters a positive integer at the validation prompt
AnswerPositive(t) ==
    /\ AnswerNumber(t)
    /\ proc'[t].current_input.v.v > 0

\* the human answers the review prompt with something other than edit
AnswerDecision(t) ==
    /\ AnswerAction(t)
    /\ proc'[t].pc = "stream"

\* the script and its human with nothing stopping the process from outside:
\* every statement of run_graph and every pass of graph.stream that can run
\* does run; a human who is asked again and again eventually enters a
\* positive integer, eventually decides other than edit, and names a hotel
InitLive ==
    /\ prog = "day10"
    /\ store = [t \in {Thread1} |-> NoCheckpoint]
    /\ proc = [t \in {Thread1} |-> Stopped]
    /\ starts = 0
    /\ d13 = D13Start

NextLive ==
    \/ \E t \in DOMAIN store : Boot(t)
    \/ \E t \in DOMAIN store : StreamInput(t)
    \/ \E t \in DOMAIN store : StreamResume(t)
    \/ \E t \in DOMAIN store : Superstep(t)
    \/ \E t \in DOMAIN store : StreamEnd(t)
    \/ \E t \in DOMAIN store : AnswerNumber(t)
    \/ \E t \in DOMAIN store : AnswerAction(t)
    \/ \E t \in DOMAIN store : AnswerHotel(t)

SpecLive ==
    /\ InitLive
    /\ [][NextLive]_vars
    /\ WF_vars(StreamInput(Thread1))
    /\ WF_vars(StreamResume(Thread1))
    /\ WF_vars(Superstep(Thread1))
    /\ WF_vars(StreamEnd(Thread1))
    /\ WF_vars(AnswerHotel(Thread1))
    /\ SF_vars(AnswerPositive(Thread1))
    /\ SF_vars(AnswerDecision(Thread1))

-----------------------------------------------------------------------------
(* Properties                                                              *)

\* thread t is paused at node with the suspension payload
PausedAt(cp, node, payload) ==
    cp.next = <<node>> /\ cp.interrupts = <<payload>>

\* the driver of thread t is about to send Command(resume=v)
Sending(t, v) ==
    proc[t].pc = "stream" /\ proc[t].current_input = [t |-> "resume", v |-> v]

JejuGrand == <<"J", "e", "j", "u", " Grand Hyatt">>

HotelY == <<"Y">>

\* C1: Scenario A.  On a fresh thread the start input with travelers = 0 is
\* followed by a suspension of validate with the prompt for 0; the answer 2
\* moves the thread to booking, whose first step suspends with the initial
\* hotel at 500000; the answer edit/Y suspends booking again with Y at
\* 550000; the answer approve completes the run with status booked, hotel Y
\* and total_price 550000, which is what run_graph returns.  Each of these
\* steps is the only change of the checkpoint that can follow.
C1_ScenarioA ==
    [][\A t \in DOMAIN store :
        LET cp == store[t]
            cq == store'[t]
        IN
        /\ (cp.log = <<>> /\ cq # cp) =>
              /\ cq.values = start_input
              /\ cq.next = <<"validate">>
              /\ cq.interrupts = <<>>
        /\ (cp.log = <<"input">> /\ cp.interrupts = <<>> /\ cq # cp) =>
              /\ PausedAt(cq, "validate", PyStr(ValidatePrompt(PyInt(0))))
              /\ cq.values = cp.values
        /\ (cp.next = <<"validate">> /\ Sending(t, PyInt(2)) /\ cq # cp) =>
              /\ cq.next = <<"booking">>
              /\ cq.interrupts = <<>>
              /\ cq.values.travelers = 2
        /\ (cp.next = <<"booking">> /\ cp.interrupts = <<>>
                /\ cp.values.travelers = 2 /\ cq # cp) =>
              /\ PausedAt(cq, "booking",
                          BookingPayload(Jeju, 2, JejuGrand, 500000))
              /\ cq.values = cp.values
        /\ (PausedAt(cp, "booking", BookingPayload(Jeju, 2, JejuGrand, 500000))
                /\ Sending(t, PyDict([action |-> edit, hotel |-> HotelY]))
                /\ cq # cp) =>
              /\ PausedAt(cq, "booking",
                          BookingPayload(Jeju, 2, HotelY, 550000))
              /\ cq.values = cp.values
        /\ (PausedAt(cp, "booking", BookingPayload(Jeju, 2, HotelY, 550000))
                /\ Sending(t, PyDict([action |-> approve]))
                /\ cq # cp) =>
              /\ cq.next = <<>>
              /\ cq.interrupts = <<>>
              /\ cq.values = [destination |-> Jeju, travelers |-> 2,
                              status |-> booked, hotel |-> HotelY,
                              total_price |-> 550000]
        /\ (proc'[t].final # None /\ proc[t].final = None) =>
              /\ proc'[t].final = StateEvent(cp.values)
              /\ cp.next = <<>>
      ]_vars

\* C1 witness: the first run on the thread has gone through the scenario
\* and returned the booked State
C1_Witness ==
    /\ prog = "day10"
    /\ store[Thread1].log = <<"input", "validate", "booking">>
    /\ proc[Thread1].final =
          StateEvent([destination |-> Jeju, travelers |-> 2,
                      status |-> booked, hotel |-> HotelY,
                      total_price |-> 550000])

\* the stored resume values of cp that carry a hotel
WithHotel(rs) ==
    {k \in 1..Len(rs) : rs[k].t = "dict" /\ "hotel" \in DOMAIN rs[k].v}

LastOf(S) == CHOOSE k \in S : \A j \in S : j <= k

\* C2: whenever the booking node is suspended, after any number of edit
\* rounds and any number of restarts of the process, every stored resume
\* value is an edit, the hotel of the payload is the hotel of the latest
\* edit that had one (the initial proposal if none had) and the price is
\* travelers x 250000 plus 50000 for every earlier edit that had a hotel;
\* an edit without a hotel changes neither.
C2_LocalsSurvive ==
    \A t \in DOMAIN store :
        LET cp == store[t]
            rs == cp.resumes
        IN
        (cp.next = <<"booking">> /\ cp.interrupts # <<>>) =>
            LET d == cp.interrupts[1].v.details IN
            /\ Len(cp.interrupts) = 1
            /\ \A k \in 1..Len(rs) :
                  /\ rs[k].t = "dict"
                  /\ "action" \in DOMAIN rs[k].v
                  /\ rs[k].v.action = edit
            /\ d.hotel = IF WithHotel(rs) = {}
                         THEN cp.values.destination \o <<" Grand Hyatt">>
                         ELSE rs[LastOf(WithHotel(rs))].v.hotel
            /\ d.total_price = cp.values.travelers * 250000
                                  + 50000 * Cardinality(WithHotel(rs))
            /\ d.travelers = cp.values.travelers
            /\ d.destination = cp.values.destination

\* C2 witness: a process started on the paused thread has surfaced the third
\* booking suspension, after an edit with a hotel and an edit without one
C2_Witness ==
    /\ starts >= 2
    /\ proc[Thread1].pc = "ask_action"
    /\ proc[Thread1].current_input = None
    /\ store[Thread1].resumes =
          <<PyDict([action |-> edit, hotel |-> HotelY]),
            PyDict([action |-> edit])>>

\* C3: a resume value sent to the suspended booking node decides the step:
\* approve ends the node with status booked and the hotel and price that
\* were shown; edit leaves the node pending with one new suspension and
\* State unchanged; any other action, a missing one included, ends the node
\* with status cancelled and nothing else changed.  The booking node
\* completes in no other way.
C3_ActionDecides ==
    [][\A t \in DOMAIN store :
        LET cp == store[t]
            cq == store'[t]
            v == proc[t].current_input.v
            shown == cp.interrupts[1].v.details
        IN
        (cp.next = <<"booking">> /\ cq # cp) =>
            /\ (cq.next = <<>>) =>
                  /\ proc[t].pc = "stream"
                  /\ proc[t].current_input.t = "resume"
                  /\ v.t = "dict"
                  /\ GetAction(v.v) # PyStr(edit)
            /\ (proc[t].pc = "stream" /\ proc[t].current_input.t = "resume"
                    /\ v.t = "dict") =>
                  /\ (GetAction(v.v) = PyStr(approve)) =>
                        /\ cq.next = <<>>
                        /\ cq.interrupts = <<>>
                        /\ DOMAIN cq.values =
                              DOMAIN cp.values \cup {"hotel", "total_price"}
                        /\ cq.values.status = booked
                        /\ cq.values.hotel = shown.hotel
                        /\ cq.values.total_price = shown.total_price
                        /\ cq.values.travelers = cp.values.travelers
                        /\ cq.values.destination = cp.values.destination
                  /\ (GetAction(v.v) = PyStr(edit)) =>
                        /\ cq.next = <<"booking">>
                        /\ Len(cq.interrupts) = 1
                        /\ cq.values = cp.values
                        /\ cq.log = cp.log
                  /\ (GetAction(v.v) \notin {PyStr(approve), PyStr(edit)}) =>
                        /\ cq.next = <<>>
                        /\ cq.interrupts = <<>>
                        /\ cq.values = [cp.values EXCEPT !.status = cancelled]
      ]_vars

\* C3 witness: the booking node has just ended the run as cancelled on a
\* resume value without an action
C3_Witness ==
    /\ proc[Thread1].pc = "events"
    /\ proc[Thread1].current_input =
          [t |-> "resume", v |-> PyDict([hotel |-> <<"Z">>])]
    /\ store[Thread1].next = <<>>
    /\ store[Thread1].values.status = cancelled

\* C4: a resume value whose action is missing or is none of approve, edit,
\* reject makes the suspended booking node suspend again.
C4_RetryPrompt ==
    [][\A t \in DOMAIN store :
        LET cp == store[t]
            cq == store'[t]
            v == proc[t].current_input.v
        IN
        (/\ cp.next = <<"booking">>
         /\ proc[t].pc = "stream"
         /\ proc[t].current_input.t = "resume"
         /\ v.t = "dict"
         /\ GetAction(v.v) \notin {PyStr(approve), PyStr(edit), PyStr(reject)}
         /\ proc'[t] # proc[t]
         /\ proc'[t].pc # "off") =>
            /\ cq.next = <<"booking">>
            /\ cq.interrupts # <<>>
      ]_vars

\* a typed answer that int() rejects
NonNumeric(s) ==
    \/ s = <<>>
    \/ \E i \in 1..Len(s) :
          s[i] \notin {"0", "1", "2", "3", "4", "5", "6", "7", "8", "9",
                       " ", "+", "-"}

\* the value the validate node judges in its next step
Judged(t) ==
    IF proc[t].pc = "stream" /\ proc[t].current_input.t = "resume"
    THEN proc[t].current_input.v
    ELSE IF store[t].resumes # <<>>
    THEN store[t].resumes[Len(store[t].resumes)]
    ELSE PyInt(store[t].values.travelers)

\* C5: a step of the validate node never faults; when the value it judges
\* (the initial travelers, then the latest resume value) is not an integer
\* above 0 it suspends again with the prompt that quotes that value and
\* leaves State alone, otherwise it writes that value to travelers and only
\* then the run advances, so travelers is above 0 from booking on.  An
\* answer that is not a number is sent as the resume value 0.
C5_ValidationRecovers ==
    [][\A t \in DOMAIN store :
        LET cp == store[t]
            cq == store'[t]
            cur == Judged(t)
        IN
        /\ proc'[t].pc # "fault"
        /\ (cp.next = <<"validate">> /\ cq # cp) =>
              IF cur.t = "int" /\ cur.v > 0
              THEN /\ cq.next = <<"booking">>
                   /\ cq.values = [cp.values EXCEPT !.travelers = cur.v]
              ELSE /\ PausedAt(cq, "validate", PyStr(ValidatePrompt(cur)))
                   /\ cq.values = cp.values
                   /\ cq.log = cp.log
        /\ (cq.log # <<>> /\ cq.next # <<"validate">>) =>
              cq.values.travelers > 0
        /\ (proc[t].pc = "ask_number" /\ proc'[t].pc = "stream") =>
              /\ proc'[t].current_input.t = "resume"
              /\ proc'[t].current_input.v.t = "int"
              /\ NonNumeric(proc'[t].val.v) =>
                    proc'[t].current_input.v = PyInt(0)
      ]_vars

\* C5 witness: validate is suspended for the third time, after the answers
\* -1 and a text that is not a number
C5_Witness ==
    /\ proc[Thread1].pc = "ask_number"
    /\ proc[Thread1].val = PyStr(<<"a">>)
    /\ store[Thread1].resumes = <<PyInt(-1), PyInt(0)>>
    /\ store[Thread1].interrupts = <<PyStr(<<"'", "0", "' not possible, enter a number">>)>>

\* the steps logged since the latest input of the thread
SessionSteps(log) ==
    LET inputs == {i \in 1..Len(log) : log[i] = "input"}
    IN IF inputs = {} THEN log
       ELSE SubSeq(log, LastOf(inputs) + 1, Len(log))

IsPrefix(s, r) == Len(s) <= Len(r) /\ s = SubSeq(r, 1, Len(s))

\* C6: a start of the script on a thread with a pending node sends no start
\* input; the first step of that process leaves State, the pending node, the
\* stored resume values and the log as they were, and the suspension it
\* surfaces is the one that was pending at the stop.  While a node is
\* pending the log only grows by that node, and the steps of a session
\* are validate then booking, each at most once.
C6_RestartResumes ==
    [][\A t \in DOMAIN store :
        LET cp == store[t]
            cq == store'[t]
        IN
        /\ (proc[t].pc \in {"off", "fault"} /\ proc'[t].pc = "stream"
                /\ cp.next # <<>>) =>
              /\ proc'[t].current_input = None
              /\ cq = cp
        /\ (proc[t].pc = "stream" /\ proc[t].current_input = None
                /\ proc'[t].pc \notin {"stream", "off"}) =>
              /\ cq.values = cp.values
              /\ cq.next = cp.next
              /\ cq.log = cp.log
              /\ cq.resumes = cp.resumes
              /\ Len(cq.interrupts) = 1
              /\ proc'[t].content = cq.interrupts[1]
              /\ proc'[t].pc \in {"ask_number", "ask_action"}
              /\ (cp.interrupts # <<>>) => cq.interrupts = cp.interrupts
        /\ (cp.next # <<>>) =>
              /\ cq.log \in {cp.log, Append(cp.log, cp.next[1])}
              /\ (cq.log = cp.log) => cq.values = cp.values
        /\ IsPrefix(SessionSteps(cq.log), <<"validate", "booking">>)
      ]_vars

\* C6 witness: the second process has surfaced the booking suspension that
\* was pending, with the edit made before the stop
C6_Witness ==
    /\ starts = 2
    /\ proc[Thread1].pc = "ask_action"
    /\ proc[Thread1].current_input = None
    /\ store[Thread1].resumes = <<PyDict([action |-> edit, hotel |-> HotelY])>>
    /\ proc[Thread1].content =
          BookingPayload(Jeju, 2, HotelY, 550000)

NoCheckpointYet(cp) ==
    cp.log = <<>> /\ cp.next = <<>> /\ cp.interrupts = <<>>

Completed(cp) ==
    cp.log # <<>> /\ cp.next = <<>> /\ cp.interrupts = <<>>

PausedOnce(cp) == Len(cp.next) = 1 /\ Len(cp.interrupts) = 1

\* a pass of the graph has ended in the running driver of thread t: a
\* suspension was surfaced and waits for its answer, or run_graph returned
PassEnded(t) ==
    \/ proc[t].pc \in {"ask_number", "ask_action", "ask_hotel"}
    \/ proc[t].pc = "stream" /\ proc[t].current_input.t = "resume"
    \/ proc[t].final # None

\* C7 as claimed: in every reachable state the latest checkpoint of a
\* thread is absent, completed, or paused at one suspension point.
C7_ThreeShapes ==
    \A t \in DOMAIN store :
        \/ NoCheckpointYet(store[t])
        \/ Completed(store[t])
        \/ PausedOnce(store[t])

\* C7 as amended: once a pass has ended the latest checkpoint is absent,
\* completed, or paused at one suspension point; otherwise it may also hold
\* one pending node that has not suspended yet.  It never holds two pending
\* nodes, two markers, or a marker without a pending node.
C7_ShapesAtRest ==
    /\ \A t \in DOMAIN store :
          \/ NoCheckpointYet(store[t])
          \/ Completed(store[t])
          \/ PausedOnce(store[t])
          \/ /\ ~PassEnded(t)
             /\ Len(store[t].next) = 1
             /\ store[t].interrupts = <<>>
    /\ \/ NoCheckpointYet(d13.task)
       \/ Completed(d13.task)
       \/ PausedOnce(d13.task)

\* C7 witness: the driver waits for the new hotel name while the thread is
\* paused at booking
C7_Witness ==
    /\ proc[Thread1].pc = "ask_hotel"
    /\ PausedOnce(store[Thread1])
    /\ store[Thread1].next = <<"booking">>

\* C8: a resume value that makes the pending node return clears the marker,
\* one that does not leaves one marker of the same node.  Approval graph:
\* after the resume the thread has no pending node and is_approved is true
\* exactly for the answer yes.  Travel graph: after an edit or a number that
\* is not valid the same node is pending with one marker; after approve or
\* reject nothing is pending.
C8_MarkerCleared ==
    [][/\ \A t \in DOMAIN store :
            LET cp == store[t]
                cq == store'[t]
                v == proc[t].current_input.v
            IN
            (proc[t].pc = "stream" /\ proc[t].current_input.t = "resume"
                 /\ cq # cp) =>
               /\ (cq.interrupts = <<>>) <=> (cq.log # cp.log)
               /\ (cp.next = <<"booking">> /\ v.v.action = edit) =>
                     (cq.next = <<"booking">> /\ Len(cq.interrupts) = 1)
               /\ (cp.next = <<"booking">> /\ v.v.action \in {approve, reject})
                     => (cq.next = <<>> /\ cq.interrupts = <<>>)
               /\ (cp.next = <<"validate">> /\ v.v <= 0) =>
                     (cq.next = <<"validate">> /\ Len(cq.interrupts) = 1)
       /\ (d13.pc = "resume") =>
             /\ PausedOnce(d13.task)
             /\ d13.task.next = <<"process">>
             /\ d13.sub.next = <<"ask_approval">>
       /\ (d13.pc = "resume" /\ d13'.pc # "resume") =>
             /\ d13'.task.next = <<>>
             /\ d13'.task.interrupts = <<>>
             /\ d13'.sub.next = <<>>
             /\ d13'.sub.interrupts = <<>>
             /\ d13'.task.values.is_approved
                   <=> (d13'.resume = PyStr(<<"y", "e", "s">>))
             /\ d13'.task.values.task_name = d13.task.values.task_name
      ]_vars

\* C8 witness: the approval graph was resumed with an answer other than yes
C8_Witness ==
    /\ d13.pc = "final_state"
    /\ d13.resume = PyStr(<<"Y", "E", "S">>)
    /\ d13.task.next = <<>>
    /\ ~d13.task.values.is_approved

FollowsPolicy(S, D, R) ==
    /\ DOMAIN R = (DOMAIN S) \cup (DOMAIN D)
    /\ \A f \in DOMAIN R :
          R[f] = IF f \notin DOMAIN D THEN S[f]
                 ELSE IF f # "history" THEN D[f]
                 ELSE IF f \in DOMAIN S THEN S[f] \o D[f]
                 ELSE D[f]

\* C10: every step of every graph leaves State as the per-field policy
\* says for the delta of that step: the start input and the deltas of
\* validate (travelers only), booking (status, or status, hotel and
\* total_price), initiate, refund_process and ask_approval overwrite their
\* fields; the deltas of triage and of the embedded tech subgraph are
\* appended to history; in every case a field the delta lacks is untouched.
C10_MergePolicy ==
    [][/\ \A t \in DOMAIN store :
            LET S == store[t].values
                R == store'[t].values
                cp == store[t]
                cq == store'[t]
            IN
            /\ (cq.log = Append(cp.log, "input")) =>
                  FollowsPolicy(S, [destination |-> Jeju, travelers |-> 0,
                                    status |-> searching], R)
            /\ (cq.log = Append(cp.log, "validate")) =>
                  FollowsPolicy(S, [travelers |-> R.travelers], R)
            /\ (cq.log = Append(cp.log, "booking")) =>
                  IF R.status = cancelled
                  THEN FollowsPolicy(S, [status |-> cancelled], R)
                  ELSE FollowsPolicy(S,
                          [status |-> booked,
                           hotel |-> cp.interrupts[1].v.details.hotel,
                           total_price |->
                               cp.interrupts[1].v.details.total_price], R)
            /\ (cq.log = cp.log) => R = S
       /\ (d13.pc = "initiate" /\ d13'.pc # d13.pc) =>
             /\ FollowsPolicy(d13.support, [status |-> processing], d13'.support)
             /\ d13'.support.order_value = d13.support.order_value
       /\ (d13.pc = "refund_process" /\ d13'.pc # d13.pc) =>
             /\ FollowsPolicy(d13.support,
                              [status |-> d13'.support.status], d13'.support)
             /\ d13'.support.status # processing
             /\ FollowsPolicy([raw_amount |-> d13.support.order_value,
                               fee_rate |-> 10],
                              [final_refund |-> d13'.refund.final_refund],
                              d13'.refund)
       /\ (d13.pc = "support_input" /\ d13'.pc # d13.pc) =>
             d13'.parent = [history |-> <<CustomerEntry>>]
       /\ (d13.pc = "triage" /\ d13'.pc # d13.pc) =>
             FollowsPolicy(d13.parent,
                           [history |-> <<TriageEntry>>, priority |-> High],
                           d13'.parent)
       /\ (d13.pc = "tech_team" /\ d13'.pc # d13.pc) =>
             /\ FollowsPolicy([history |-> d13.parent.history],
                              [history |-> <<TechEntry>>,
                               internal_notes |-> TechNotes], d13'.tech)
             /\ FollowsPolicy(d13.parent,
                              [history |-> d13'.tech.history], d13'.parent)
       /\ (d13.pc = "resume" /\ d13'.pc # d13.pc) =>
             /\ FollowsPolicy(d13.sub.values,
                              [is_approved |-> d13'.sub.values.is_approved],
                              d13'.sub.values)
             /\ FollowsPolicy(d13.task.values, d13'.sub.values,
                              d13'.task.values)
      ]_vars

\* C10 witness: the support graph has merged the deltas of triage and of the
\* tech subgraph into history and kept priority
C10_Witness ==
    /\ d13.pc = "approval_invoke"
    /\ Len(d13.parent.history) > Len(d13.tech.history)
    /\ d13.parent.priority = High

\* the support graph has run to its end
SupportDone ==
    d13.pc \in {"approval_invoke", "get_state", "resume", "final_state", "end"}

\* C11: when the support graph has ended, the history of the parent is
\* the customer entry, the triage entry and the tech entry, each once.
C11_HistoryOnce ==
    SupportDone =>
        d13.parent.history = <<CustomerEntry, TriageEntry, TechEntry>>

\* C12: internal_notes is never a field of the parent State, although the
\* embedded subgraph has written it to its own State, and from triage on
\* priority is the value triage wrote.
C12_PrivateField ==
    /\ "internal_notes" \notin DOMAIN d13.parent
    /\ (d13.pc = "tech_team" \/ SupportDone) =>
          /\ DOMAIN d13.parent = {"history", "priority"}
          /\ d13.parent.priority = <<"High">>
    /\ SupportDone =>
          /\ "internal_notes" \in DOMAIN d13.tech
          /\ d13.tech.internal_notes = TechNotes
          /\ "priority" \notin DOMAIN d13.tech

\* C12 witness: the support graph has ended and the subgraph holds the notes
C12_Witness ==
    /\ d13.pc = "approval_invoke"
    /\ d13.tech.internal_notes = TechNotes
    /\ d13.parent.priority = High

\* the refund graph has run to its end
RefundDone == d13.pc \notin {"refund_input", "initiate", "refund_process"}

\* C13: refund_process hands order_value to the subgraph as raw_amount with
\* a fee of 10 percent; the subgraph ends with final_refund equal to the
\* integer part of 90 percent of order_value (90000 for 100000) and the
\* parent ends with the refund text that carries that number.  The parent
\* State never has a field of the subgraph, and customer_name and
\* order_value stay as they were given.
C13_CallMode ==
    /\ DOMAIN d13.support \cap {"raw_amount", "fee_rate", "final_refund"} = {}
    /\ (d13.pc # "refund_input") =>
          /\ d13.support.customer_name = KimCheolsu
          /\ d13.support.order_value \in OrderValues
    /\ RefundDone =>
          LET ov == d13.support.order_value
              r == d13.refund.final_refund
          IN
          /\ DOMAIN d13.refund = {"raw_amount", "fee_rate", "final_refund"}
          /\ d13.refund.raw_amount = ov
          /\ 10 * r <= 9 * ov
          /\ 9 * ov < 10 * (r + 1)
          /\ (ov = 100000) =>
                /\ r = 90000
                /\ d13.support.status =
                      <<"refund done: ", "9", "0", "0", "0", "0", " won">>
          /\ (ov = 15) =>
                d13.support.status = <<"refund done: ", "1", "3", " won">>
          /\ DOMAIN d13.support = {"customer_name", "order_value", "status"}

\* C13 witness: the refund graph has ended for the order of 100000
C13_Witness ==
    /\ d13.pc = "support_input"
    /\ d13.support.order_value = 100000
    /\ d13.refund.final_refund = 90000

\* C14: after the first invoke of the approval graph the parent thread is
\* paused at node process with is_approved false, and the state query with
\* subgraphs reports under the pending task process the subgraph's pending
\* node ask_approval and the subgraph's State.
C14_NestedSnapshot ==
    /\ (d13.pc \in {"get_state", "resume"}) =>
          /\ d13.task.next = <<"process">>
          /\ d13.task.interrupts = <<ApprovalPrompt>>
          /\ d13.task.values =
                [task_name |-> ServerReboot, is_approved |-> FALSE]
    /\ (d13.pc = "resume") =>
          /\ d13.full_state.next = <<"process">>
          /\ d13.full_state.values =
                [task_name |-> ServerReboot, is_approved |-> FALSE]
          /\ Len(d13.full_state.tasks) = 1
          /\ d13.full_state.tasks[1].name = "process"
          /\ d13.full_state.tasks[1].interrupts = <<ApprovalPrompt>>
          /\ d13.full_state.tasks[1].state =
                [values |-> [task_name |-> ServerReboot,
                             is_approved |-> FALSE],
                 next |-> <<"ask_approval">>]

\* C14 witness: the state query was made while the subgraph was suspended
C14_Witness ==
    /\ d13.pc = "resume"
    /\ d13.sub.next = <<"ask_approval">>
    /\ d13.full_state.tasks # <<>>

\* the numbers and hotels that the human of thread t can have entered
NumbersOf(t) ==
    {ParseInt(val) : val \in {x \in TypedNumbersOf(t) : IntParses(x)}}

\* a final State that only the answers of thread t can have produced
OwnOutcome(t, values) ==
    /\ values.travelers \in {n \in NumbersOf(t) : n > 0}
    /\ values.status \in {booked, cancelled}
    /\ values.status = booked =>
          /\ values.hotel \in {InitialHotel(Jeju)} \cup TypedHotelsOf(t)
          /\ \E k \in 0..(MaxEdits + 1) :
                values.total_price =
                    values.travelers * UnitPrice + k * EditSurcharge

C16_Sequential ==
    [][\A t \in DOMAIN store :
        LET cp == store[t]
            cq == store'[t]
        IN
        /\ Len(cq.next) <= 1
        /\ (cq # cp /\ (cq.log = Append(cp.log, "booking")
                        \/ (cq.interrupts # <<>>
                            /\ cq.interrupts[1].t = "dict"))) =>
              /\ cp.next = <<"booking">>
              /\ SessionSteps(cp.log) = <<"validate">>
              /\ cp.values.travelers > 0
        /\ (cq # cp /\ cp.next = <<"validate">>) =>
              /\ cq.next = <<"validate">> \/ cq.log = Append(cp.log, "validate")
              /\ cq.next = <<"booking">> =>
                    cq.interrupts = <<>> /\ cq.values.travelers > 0
        /\ (cq.next = <<"booking">> /\ cq.interrupts # <<>>) =>
              /\ cq.interrupts[1].v.details.travelers = cq.values.travelers
              /\ cq.interrupts[1].v.details.travelers > 0
              /\ cq.interrupts[1].v.details.total_price > 0
        /\ (proc'[t].final # None /\ proc[t].final = None) =>
              /\ SessionSteps(cp.log) = <<"validate", "booking">>
              /\ cp.next = <<>>
      ]_vars

\* C16 witness: the booking node is suspended with travelers 1, after
\* validate returned on the typed number 1 in this session
C16_Witness ==
    /\ store[Thread1].next = <<"booking">>
    /\ store[Thread1].interrupts # <<>>
    /\ store[Thread1].interrupts[1].v.details.travelers = 1
    /\ SessionSteps(store[Thread1].log) = <<"validate">>
    /\ proc[Thread1].val = PyStr(<<"1">>)
    /\ proc[Thread1].pc = "ask_action"

\* the driver of thread t is about to start a pass with Command(resume=v)
Resuming(t) ==
    proc[t].pc = "stream" /\ proc[t].current_input.t = "resume"

\* the steps of run_graph of C17: when it returns, what it returns, and one
\* resume value for each surfaced suspension
C17_Steps ==
    [][\A t \in DOMAIN store :
        LET cp == store[t]
            cq == store'[t]
            p == proc[t]
            q == proc'[t]
        IN
        /\ (q.final # None /\ p.final = None) =>
              /\ p.pc = "events"
              /\ ~p.interrupted
              /\ cp.next = <<>>
              /\ q.final = StateEvent(cp.values)
              /\ cp.values.status \in {booked, cancelled}
        /\ (p.pc = "events" /\ cp.next = <<>> /\ ~p.interrupted /\ q # p) =>
              q.final = p.last_event /\ q.final # None
        /\ (p.pc \in {"ask_number", "ask_action", "ask_hotel"}) =>
              /\ p.interrupted
              /\ cq = cp
              /\ q.final = None
              /\ q # p => (q.pc = "ask_hotel" \/ Resuming(t)')
        /\ (Resuming(t) /\ cq # cp) =>
              \/ /\ cq.resumes = Append(cp.resumes, p.current_input.v)
                 /\ cq.next = cp.next
              \/ /\ cq.resumes = <<>>
                 /\ cq.log = Append(cp.log, cp.next[1])
        /\ (Resuming(t) /\ Continues(cp.next[1], p.current_input.v)
                /\ <<cq, q>> # <<cp, p>>) =>
              /\ cq.next = cp.next
              /\ Len(cq.interrupts) = 1
              /\ q.interrupted
              /\ q.final = None
              /\ q.pc \in {"ask_number", "ask_action"}
      ]_vars

\* C17: run_graph returns exactly when a pass over the graph ends without a
\* suspension, and returns the final State of the completed run, whose
\* status is booked or cancelled; each surfaced suspension is answered with
\* one resume value before the next pass; an invalid number or an edit
\* leaves the thread pending and run_graph asking.  When the human
\* eventually enters a positive integer and eventually answers the review
\* prompt with something other than edit, a started run_graph eventually
\* returns.
C17_Termination ==
    /\ C17_Steps
    /\ (proc[Thread1].pc = "stream") ~> (proc[Thread1].final # None)

\* C17 witness: run_graph has returned the cancelled State of a completed
\* run for one traveler, and the process has ended
C17_Witness ==
    /\ proc[Thread1].pc = "off"
    /\ proc[Thread1].final # None
    /\ proc[Thread1].final.v.status = cancelled
    /\ proc[Thread1].final.v.travelers = 1
    /\ store[Thread1].log = <<"input", "validate", "booking">>
    /\ store[Thread1].next = <<>>

\* C18: what is approved is what was shown.  When run_graph returns a State
\* with status booked, the last payload this driver showed to the human was
\* a booking payload, the human's answer to it was approve, and the hotel
\* and total_price of the returned State are those of its details; this is
\* also the payload of the checkpoint the approve resume value was sent to.
C18_ApprovedIsShown ==
    [][\A t \in DOMAIN store :
        LET p == proc[t]
            q == proc'[t]
        IN
        /\ (q.final # None /\ p.final = None
                /\ q.final.v.status = booked) =>
              /\ p.content.t = "dict"
              /\ p.action = PyStr(approve)
              /\ p.current_input = [t |-> "resume",
                                    v |-> PyDict([action |-> approve])]
              /\ q.final.v.hotel = p.content.v.details.hotel
              /\ q.final.v.total_price = p.content.v.details.total_price
        /\ (p.pc = "stream" /\ p.current_input.t = "resume"
                /\ store[t].next = <<"booking">>) =>
              /\ store[t].interrupts = <<p.content>>
              /\ store'[t] # store[t] /\ store'[t].next = <<"booking">> =>
                    q.content = store'[t].interrupts[1]
      ]_vars

\* C18 witness: run_graph has returned booked with hotel Z at 350000, the
\* package shown after two edits for one traveler
C18_Witness ==
    /\ proc[Thread1].final # None
    /\ proc[Thread1].final.v.status = booked
    /\ proc[Thread1].final.v.hotel = <<"Z">>
    /\ proc[Thread1].final.v.total_price = 350000
    /\ proc[Thread1].final.v.travelers = 1

\* v has the shape that a node suspended with payload expects
ExpectedShape(payload, v) ==
    /\ payload.t = "str" => v.t = "int"
    /\ payload.t = "dict" => (v.t = "dict" /\ "action" \in DOMAIN v.v)

\* C19: run_graph answers a suspension with a resume value of the shape the
\* suspended node expects: an integer for a text payload, a record with an
\* action field for a record payload.  So every resume value that the
\* booking node holds is a record with an action, every one that the validate
\* node holds is an integer, and the action lookup of booking_tool never
\* faults.
C19_ResumeShapes ==
    \A t \in DOMAIN store :
        /\ Resuming(t) =>
              /\ Len(store[t].interrupts) = 1
              /\ proc[t].content = store[t].interrupts[1]
              /\ ExpectedShape(store[t].interrupts[1],
                               proc[t].current_input.v)
        /\ proc[t].pc # "fault"
        /\ store[t].next = <<"validate">> =>
              \A k \in 1..Len(store[t].resumes) :
                  store[t].resumes[k].t = "int"
        /\ store[t].next = <<"booking">> =>
              \A k \in 1..Len(store[t].resumes) :
                  /\ store[t].resumes[k].t = "dict"
                  /\ "action" \in DOMAIN store[t].resumes[k].v
        /\ store[t].next # <<>> =>
              RunNode(store[t].next[1], store[t].values,
                      store[t].resumes).kind # "fault"

\* C19 witness: the human typed yes at the review prompt of a booking node
\* that already holds the record of an edit, and the driver is about to
\* send the record with action yes
C19_Witness ==
    /\ Resuming(Thread1)
    /\ proc[Thread1].current_input.v = PyDict([action |-> yes])
    /\ proc[Thread1].content.t = "dict"
    /\ store[Thread1].next = <<"booking">>
    /\ store[Thread1].resumes # <<>>

\* C20: in every final State that run_graph returns, hotel and total_price
\* are present only if status is booked; a State returned with status
\* cancelled has neither, also when the session started on a thread whose
\* earlier run had completed.
C20_OnlyIfBooked ==
    \A t \in DOMAIN store :
        (proc[t].final # None /\ proc[t].final.v.status # booked) =>
            /\ "hotel" \notin DOMAIN proc[t].final.v
            /\ "total_price" \notin DOMAIN proc[t].final.v

====
